---- MODULE Spec2Model ----
(***************************************************************************)
(* Display bring-up of ion/platform/device/display.c (STM32F429, ILI9341). *)
(*                                                                         *)
(* The program is sequential: init_display() calls init_spi_interface(),   *)
(* init_rgb_interface() and init_panel() in turn.  Every statement of the  *)
(* file that touches a register is one action, named after its function    *)
(* and its source line.  pc holds the source line about to execute.        *)
(* The hardware (PLL lock, shadow reload, SPI shifter) and the external    *)
(* panel driver are the environment, modelled as separate actions.         *)
(***************************************************************************)
EXTENDS Integers, Sequences, FiniteSets, TLC

VARIABLES
  pc,           \* the source line about to execute ("L49", ...), "driver", "done"
  reg,          \* the memory-mapped registers, by name
  i,            \* loop index of init_rgb_gpios (line 129)
  panel,        \* the eight lcd_panel_* locals of init_rgb_timings (lines 184-191)
  plan,         \* the three PLLSAI stage values init_rgb_clocks stores (lines 165-167)
  display,      \* Platform.display: the three function pointers (lines 300-302)
  data,         \* spi_5_write's buffer argument
  wi,           \* spi_5_write's loop index (line 309)
  shreg,        \* SPI hardware: the byte in the shift register, or NoByte
  sent,         \* SPI hardware: bytes shifted out since spi_5_write was entered
  polls,        \* unsuccessful iterations of the current busy-wait, saturating
  driverResult, \* what ili9341_initialize reported
  log,          \* history: calls, returns, register writes, observed flags
  wlog          \* history of the current spi_5_write call

vars == <<pc, reg, i, panel, plan, display, data, wi, shreg, sent, polls,
          driverResult, log, wlog>>

---------------------------------------------------------------------------
(* Bounds of the model *)

\* A busy-wait's iteration counter saturates here (the loops themselves are unbounded).
MaxPolls == 2
\* Longest buffer the panel driver hands to spi_write.
MaxLen == 2
\* Largest value of each field of a generalised timing descriptor.
MaxT == 2

Bytes == {"b0", "b1"}
NoByte == "none"

---------------------------------------------------------------------------
(* Program constants *)

lcd_panel_hsync == 10
lcd_panel_hbp == 20
lcd_panel_hfp == 10
lcd_panel_vsync == 2
lcd_panel_vbp == 2
lcd_panel_vfp == 4
ION_FRAMEBUFFER_WIDTH == 240
ION_FRAMEBUFFER_HEIGHT == 320
\* 0x00FF00FF
BackgroundColor == 16711935
\* "PLLSAI = HSI = 16MHz and RCC_PLLCFGR.PLLM = 16"
HSI_MHZ == 16
PLLM_DEFAULT == 16
\* "Per the panel doc, we want a clock of 6 MHz."
TargetPixelClock == 6
PLLSAIN_VALUE == 192
PLLSAIR_VALUE == 4
\* RCC_PLLSAIDIVR_DIV8: the divider the field selects
RCC_PLLSAIDIVR_DIV8 == 8
SPI_AF == 5
LTDC_AF == 14

Groups == {"GPIOA", "GPIOB", "GPIOC", "GPIOD", "GPIOE", "GPIOF", "GPIOG"}
Pins == 0..15

\* The AHB1 clock-enable bit of a GPIO group (GPIOAEN, ...).
EN(g) == <<g, "EN">>

rgb_pins == <<
  <<"GPIOA", 3>>, <<"GPIOA", 4>>, <<"GPIOA", 6>>, <<"GPIOA", 11>>, <<"GPIOA", 12>>,
  <<"GPIOB", 0>>, <<"GPIOB", 1>>, <<"GPIOB", 8>>, <<"GPIOB", 9>>, <<"GPIOB", 10>>, <<"GPIOB", 11>>,
  <<"GPIOC", 2>>, <<"GPIOC", 6>>, <<"GPIOC", 7>>, <<"GPIOC", 10>>,
  <<"GPIOD", 3>>, <<"GPIOD", 6>>,
  <<"GPIOF", 10>>,
  <<"GPIOG", 6>>, <<"GPIOG", 7>>, <<"GPIOG", 10>>, <<"GPIOG", 11>>, <<"GPIOG", 12>> >>

rgb_pin_count == Len(rgb_pins)

\* The compiled-in timing descriptor: the locals of init_rgb_timings.
LcdPanel ==
  [hsync |-> lcd_panel_hsync, hbp |-> lcd_panel_hbp,
   hadr |-> ION_FRAMEBUFFER_WIDTH, hfp |-> lcd_panel_hfp,
   vsync |-> lcd_panel_vsync, vbp |-> lcd_panel_vbp,
   vadr |-> ION_FRAMEBUFFER_HEIGHT, vfp |-> lcd_panel_vfp]

\* The compiled-in clock plan: the stage values of lines 165-167.
ClockPlan ==
  [PLLSAIN |-> PLLSAIN_VALUE, PLLSAIR |-> PLLSAIR_VALUE,
   PLLSAIDIVR |-> RCC_PLLSAIDIVR_DIV8]

NoPanel ==
  [hsync |-> 0, hbp |-> 0, hadr |-> 0, hfp |-> 0,
   vsync |-> 0, vbp |-> 0, vadr |-> 0, vfp |-> 0]

---------------------------------------------------------------------------
(* Initial state: the registers after reset, nothing called yet *)

\* Only the registers and bits the file touches are modelled.  Before bring-up
\* none of them has been programmed: no clock enabled, no PLL on, every pin an
\* input, the LTDC and its layer off.  The SPI data register is empty, which
\* the hardware reports as TXE set and BSY clear.

ResetRegs ==
  [RCC_AHB1ENR    |-> {},
   RCC_APB2ENR    |-> {},
   RCC_CR         |-> {},
   RCC_PLLSAICFGR |-> [PLLSAIN |-> 0, PLLSAIR |-> 0],
   RCC_DCKCFGR    |-> [PLLSAIDIVR |-> 0],
   GPIO_MODER     |-> [g \in Groups |-> [p \in Pins |-> "INPUT"]],
   GPIO_AFR       |-> [g \in Groups |-> [p \in Pins |-> 0]],
   GPIO_ODR       |-> [C2 |-> FALSE, D13 |-> FALSE],
   SPI_CR1        |-> {},
   SPI_SR         |-> {"TXE"},
   SPI_DR         |-> NoByte,
   LTDC_SSCR      |-> [VSH |-> 0, HSW |-> 0],
   LTDC_BPCR      |-> [AVBP |-> 0, AHBP |-> 0],
   LTDC_AWCR      |-> [AAH |-> 0, AAW |-> 0],
   LTDC_TWCR      |-> [TOTALH |-> 0, TOTALW |-> 0],
   LTDC_GCR       |-> {},
   LTDC_BCCR      |-> 0,
   LTDC_LWHPCR    |-> [WHSTPOS |-> 0, WHSPPOS |-> 0],
   LTDC_LWVPCR    |-> [WVSTPOS |-> 0, WVSPPOS |-> 0],
   LTDC_LPFCR     |-> "reset",
   LTDC_LCFBAR    |-> "reset",
   LTDC_LCFBLR    |-> [CFBLL |-> 0, CFBP |-> 0],
   LTDC_LCFBLNR   |-> 0,
   LTDC_LCR       |-> {},
   LTDC_SRCR      |-> {}]

NoDisplay ==
  [chip_select_pin_write |-> "null", data_command_pin_write |-> "null",
   spi_write |-> "null"]

Init ==
  /\ pc = "L49"
  /\ reg = ResetRegs
  /\ i = 0
  /\ panel = NoPanel
  /\ plan = ClockPlan
  /\ display = NoDisplay
  /\ data = <<>>
  /\ wi = 0
  /\ shreg = NoByte
  /\ sent = <<>>
  /\ polls = 0
  /\ driverResult = "none"
  /\ log = <<>>
  /\ wlog = <<>>

---------------------------------------------------------------------------
(* Helpers shared by the actions *)

\* Everything but pc, reg, log and i.
others == <<panel, plan, display, data, wi, shreg, sent, polls, driverResult, wlog>>
rest == <<i, others>>

Ev(op, what, line, group) == <<op, what, line, group>>

\* A function call or return: control moves, the registers do not.
Call(from, fn, to) ==
  /\ pc = from
  /\ pc' = to
  /\ log' = Append(log, Ev("call", fn, 0, ""))
  /\ UNCHANGED <<reg, rest>>

Return(from, fn, to) ==
  /\ pc = from
  /\ pc' = to
  /\ log' = Append(log, Ev("return", fn, 0, ""))
  /\ UNCHANGED <<reg, rest>>

\* A statement that stores v into register r.
Store(from, to, r, v, line) ==
  /\ pc = from
  /\ pc' = to
  /\ reg' = [reg EXCEPT ![r] = v]
  /\ log' = Append(log, Ev("write", r, line, ""))
  /\ UNCHANGED others

\* REGISTER_SET_VALUE on one pin's field of a GPIO register of group g.
StorePin(from, to, r, g, p, v, line) ==
  /\ pc = from
  /\ pc' = to
  /\ reg' = [reg EXCEPT ![r][g][p] = v]
  /\ log' = Append(log, Ev("write", r, line, g))
  /\ UNCHANGED others

Min(a, b) == IF a < b THEN a ELSE b

---------------------------------------------------------------------------
(* init_display, init_spi_interface *)

init_display_L49 == Call("L49", "init_spi_interface", "L62")

init_spi_interface_L62 == Call("L62", "init_spi_gpios", "L70")

(* init_spi_gpios *)

\* Mutant: the clock-enable bits are toggled (^=) instead of set (|=).
init_spi_gpios_L70_toggles ==
  /\ Store("L70", "L73", "RCC_AHB1ENR",
           (reg.RCC_AHB1ENR \ {EN("GPIOC"), EN("GPIOD"), EN("GPIOF")})
             \cup ({EN("GPIOC"), EN("GPIOD"), EN("GPIOF")} \ reg.RCC_AHB1ENR), 70)
  /\ UNCHANGED i

init_spi_gpios_L70 ==
  /\ Store("L70", "L73", "RCC_AHB1ENR",
           reg.RCC_AHB1ENR \cup {EN("GPIOC"), EN("GPIOD"), EN("GPIOF")}, 70)
  /\ UNCHANGED i

init_spi_gpios_L73 ==
  StorePin("L73", "L74", "GPIO_MODER", "GPIOC", 2, "OUTPUT", 73) /\ UNCHANGED i

init_spi_gpios_L74 ==
  StorePin("L74", "L77", "GPIO_MODER", "GPIOD", 13, "OUTPUT", 74) /\ UNCHANGED i

init_spi_gpios_L77 ==
  StorePin("L77", "L78", "GPIO_MODER", "GPIOF", 7, "ALTERNATE_FUNCTION", 77) /\ UNCHANGED i

init_spi_gpios_L78 ==
  StorePin("L78", "L83", "GPIO_MODER", "GPIOF", 9, "ALTERNATE_FUNCTION", 78) /\ UNCHANGED i

init_spi_gpios_L83 ==
  StorePin("L83", "L84", "GPIO_AFR", "GPIOF", 7, SPI_AF, 83) /\ UNCHANGED i

init_spi_gpios_L84 ==
  StorePin("L84", "L85", "GPIO_AFR", "GPIOF", 9, SPI_AF, 84) /\ UNCHANGED i

init_spi_gpios_L85 == Return("L85", "init_spi_gpios", "L63")

init_spi_interface_L63 == Call("L63", "init_spi_port", "L89")

(* init_spi_port *)

init_spi_port_L89 ==
  /\ Store("L89", "L92", "RCC_APB2ENR", reg.RCC_APB2ENR \cup {"SPI5EN"}, 89)
  /\ UNCHANGED i

init_spi_port_L92 ==
  /\ Store("L92", "L93", "SPI_CR1",
           {"BIDIMODE", "BIDIOE", "MSTR", "DFF_8_BITS", "BR_DIV_2", "SSM", "SSI", "SPE"}, 92)
  /\ UNCHANGED i

init_spi_port_L93 == Return("L93", "init_spi_port", "L64")

\* Mutant: init_display goes on to init_panel right after the SPI interface.
init_spi_interface_L64_skips_rgb == Return("L64", "init_spi_interface", "L53")

init_spi_interface_L64 == Return("L64", "init_spi_interface", "L51")

---------------------------------------------------------------------------
(* init_rgb_interface, init_rgb_gpios *)

init_display_L51 == Call("L51", "init_rgb_interface", "L103")

init_rgb_interface_L103 == Call("L103", "init_rgb_gpios", "L122")

\* Mutant: the clock of group G is left off.
init_rgb_gpios_L122_no_gpiog ==
  /\ Store("L122", "L129", "RCC_AHB1ENR",
           reg.RCC_AHB1ENR \cup {EN("GPIOA"), EN("GPIOB"), EN("GPIOC"),
                                  EN("GPIOD"), EN("GPIOF")}, 122)
  /\ i' = 0

init_rgb_gpios_L122 ==
  /\ Store("L122", "L129", "RCC_AHB1ENR",
           reg.RCC_AHB1ENR \cup {EN("GPIOA"), EN("GPIOB"), EN("GPIOC"),
                                  EN("GPIOD"), EN("GPIOF"), EN("GPIOG")}, 122)
  /\ i' = 0

\* for (int i=0; i<rgb_pin_count; i++): the test
init_rgb_gpios_L129 ==
  /\ pc = "L129"
  /\ pc' = IF i < rgb_pin_count THEN "L131" ELSE "L134"
  /\ UNCHANGED <<reg, log, rest>>

\* rgb_pins[i], one-based here
Pin(n) == rgb_pins[n + 1]

init_rgb_gpios_L131 ==
  /\ StorePin("L131", "L132", "GPIO_AFR", Pin(i)[1], Pin(i)[2], LTDC_AF, 131)
  /\ UNCHANGED i

init_rgb_gpios_L132 ==
  /\ StorePin("L132", "L129", "GPIO_MODER", Pin(i)[1], Pin(i)[2], "ALTERNATE_FUNCTION", 132)
  /\ i' = i + 1

init_rgb_gpios_L134 == Return("L134", "init_rgb_gpios", "L104")

---------------------------------------------------------------------------
(* init_rgb_clocks *)

\* Mutant: init_rgb_interface calls init_rgb_timings before the clocks are set up.
init_rgb_interface_L104_timings_first == Call("L104", "init_rgb_timings", "L184")

init_rgb_interface_L104 == Call("L104", "init_rgb_clocks", "L141")

init_rgb_clocks_L141 ==
  /\ Store("L141", "L165", "RCC_APB2ENR", reg.RCC_APB2ENR \cup {"LTDCEN"}, 141)
  /\ UNCHANGED i

init_rgb_clocks_L165 ==
  /\ Store("L165", "L166", "RCC_PLLSAICFGR",
           [reg.RCC_PLLSAICFGR EXCEPT !.PLLSAIN = plan.PLLSAIN], 165)
  /\ UNCHANGED i

\* Mutant: the post-divider value is stored into the multiplier's field.
init_rgb_clocks_L166_wrong_field ==
  /\ Store("L166", "L167", "RCC_PLLSAICFGR",
           [reg.RCC_PLLSAICFGR EXCEPT !.PLLSAIN = plan.PLLSAIR], 166)
  /\ UNCHANGED i

init_rgb_clocks_L166 ==
  /\ Store("L166", "L167", "RCC_PLLSAICFGR",
           [reg.RCC_PLLSAICFGR EXCEPT !.PLLSAIR = plan.PLLSAIR], 166)
  /\ UNCHANGED i

init_rgb_clocks_L167 ==
  /\ Store("L167", "L170", "RCC_DCKCFGR",
           [reg.RCC_DCKCFGR EXCEPT !.PLLSAIDIVR = plan.PLLSAIDIVR], 167)
  /\ UNCHANGED i

init_rgb_clocks_L170 ==
  /\ Store("L170", "L173a", "RCC_CR", reg.RCC_CR \cup {"PLLSAION", "PLLON"}, 170)
  /\ UNCHANGED i

\* while ((RCC_CR & PLLSAIRDY) == 0 || (RCC_CR & PLLRDY) == 0) {}
\* The first operand of ||: a read of RCC_CR. The loop body is empty, so an
\* iteration that finds the flag clear changes nothing but the iteration count.
init_rgb_clocks_L173a ==
  /\ pc = "L173a"
  /\ pc' = IF "PLLSAIRDY" \in reg.RCC_CR THEN "L173b" ELSE "L173a"
  /\ polls' = IF "PLLSAIRDY" \in reg.RCC_CR THEN polls ELSE Min(polls + 1, MaxPolls)
  /\ UNCHANGED <<reg, log, i, plan, panel, display, data, wi, shreg, sent, driverResult, wlog>>

\* Mutant: the loop is left as soon as PLLSAIRDY is set, PLLRDY is not read.
init_rgb_clocks_L173b_no_test ==
  /\ pc = "L173b"
  /\ pc' = "L175"
  /\ polls' = 0
  /\ log' = Append(log, Ev("observed", "PLLSAIRDY&PLLRDY", 173, ""))
  /\ UNCHANGED <<reg, i, plan, panel, display, data, wi, shreg, sent, driverResult, wlog>>

\* The second operand of ||: a second read of RCC_CR. The loop is left only here,
\* right after the first operand found PLLSAIRDY set.
init_rgb_clocks_L173b ==
  /\ pc = "L173b"
  /\ pc' = IF "PLLRDY" \in reg.RCC_CR THEN "L175" ELSE "L173a"
  /\ polls' = IF "PLLRDY" \in reg.RCC_CR THEN 0 ELSE Min(polls + 1, MaxPolls)
  /\ log' = IF "PLLRDY" \in reg.RCC_CR
            THEN Append(log, Ev("observed", "PLLSAIRDY&PLLRDY", 173, ""))
            ELSE log
  /\ UNCHANGED <<reg, i, plan, panel, display, data, wi, shreg, sent, driverResult, wlog>>

init_rgb_clocks_L175 == Return("L175", "init_rgb_clocks", "L105")

\* The pixel clock the programmed stages give, in MHz, as lines 147-150 derive it:
\*   PXL = PLL_LCD / PLLSAIDIVR;  PLL_LCD = VCO / PLLSAIR;
\*   VCO = PLLSAI * (PLLSAIN / PLLM);  PLLSAI = HSI
VCO(r) == HSI_MHZ * (r.RCC_PLLSAICFGR.PLLSAIN \div PLLM_DEFAULT)
PLL_LCD(r) == VCO(r) \div r.RCC_PLLSAICFGR.PLLSAIR
PXL(r) == PLL_LCD(r) \div r.RCC_DCKCFGR.PLLSAIDIVR

(* The clock hardware: once a PLL is switched on it locks at some later time,
   or never. *)
HwPllLock ==
  /\ "PLLON" \in reg.RCC_CR
  /\ "PLLRDY" \notin reg.RCC_CR
  /\ reg' = [reg EXCEPT !.RCC_CR = @ \cup {"PLLRDY"}]
  /\ UNCHANGED <<pc, log, rest>>

HwPllSaiLock ==
  /\ "PLLSAION" \in reg.RCC_CR
  /\ "PLLSAIRDY" \notin reg.RCC_CR
  /\ reg' = [reg EXCEPT !.RCC_CR = @ \cup {"PLLSAIRDY"}]
  /\ UNCHANGED <<pc, log, rest>>

---------------------------------------------------------------------------
(* init_rgb_timings: the Timing Generator part (lines 184-240) *)

init_rgb_interface_L105 == Call("L105", "init_rgb_timings", "L184")

\* int lcd_panel_hsync = 10; ... int lcd_panel_vfp = 4;
init_rgb_timings_L184 ==
  /\ pc = "L184"
  /\ pc' = "L200"
  /\ panel' = LcdPanel
  /\ UNCHANGED <<reg, log, i, plan, display, data, wi, shreg, sent, polls, driverResult, wlog>>

\* The values the code computes for each register from the locals p.
LTDC_SSCR_Value(p) ==
  [VSH |-> p.vsync - 1, HSW |-> p.hsync - 1]

LTDC_BPCR_Value(p) ==
  [AVBP |-> p.vsync + p.vbp - 1, AHBP |-> p.hsync + p.hbp - 1]

\* Mutant: the active-area accumulation leaves out the back porch.
LTDC_AWCR_Value_no_back_porch(p) ==
  [AAH |-> p.vsync + p.vadr - 1, AAW |-> p.hsync + p.hadr - 1]

LTDC_AWCR_Value(p) ==
  [AAH |-> p.vsync + p.vbp + p.vadr - 1, AAW |-> p.hsync + p.hbp + p.hadr - 1]

LTDC_TWCR_Value(p) ==
  [TOTALH |-> p.vsync + p.vbp + p.vadr + p.vfp - 1,
   TOTALW |-> p.hsync + p.hbp + p.hadr + p.hfp - 1]

\* Mutant: the window's first column is the back-porch accumulation value itself.
LTDC_LWHPCR_Value_starts_in_porch(p) ==
  [WHSTPOS |-> p.hsync + p.hbp - 1, WHSPPOS |-> p.hsync + p.hbp + p.hadr - 1]

LTDC_LWHPCR_Value(p) ==
  [WHSTPOS |-> p.hsync + p.hbp, WHSPPOS |-> p.hsync + p.hbp + p.hadr - 1]

\* Mutant: the window's last line is computed without the -1.
LTDC_LWVPCR_Value_no_minus_one(p) ==
  [WVSTPOS |-> p.vsync + p.vbp, WVSPPOS |-> p.vsync + p.vbp + p.vadr]

LTDC_LWVPCR_Value(p) ==
  [WVSTPOS |-> p.vsync + p.vbp, WVSPPOS |-> p.vsync + p.vbp + p.vadr - 1]

init_rgb_timings_L200 ==
  Store("L200", "L208", "LTDC_SSCR", LTDC_SSCR_Value(panel), 200) /\ UNCHANGED i

\* Mutant: the active-area register is written where the back-porch register belongs.
init_rgb_timings_L208_writes_awcr ==
  Store("L208", "L216", "LTDC_AWCR", LTDC_AWCR_Value(panel), 208) /\ UNCHANGED i

init_rgb_timings_L208 ==
  Store("L208", "L216", "LTDC_BPCR", LTDC_BPCR_Value(panel), 208) /\ UNCHANGED i

init_rgb_timings_L216 ==
  Store("L216", "L228", "LTDC_AWCR", LTDC_AWCR_Value(panel), 216) /\ UNCHANGED i

init_rgb_timings_L228 ==
  Store("L228", "L234", "LTDC_TWCR", LTDC_TWCR_Value(panel), 228) /\ UNCHANGED i

\* LTDC_GCR |= LTDC_PCPOL;
init_rgb_timings_L234 ==
  Store("L234", "L240", "LTDC_GCR", reg.LTDC_GCR \cup {"PCPOL"}, 234) /\ UNCHANGED i

init_rgb_timings_L240 ==
  Store("L240", "L261", "LTDC_BCCR", BackgroundColor, 240) /\ UNCHANGED i

(* init_rgb_timings: the layer part (lines 261-290), the body of what the
   commented-out split at lines 243-247 names init_rgb_layers *)

init_rgb_timings_L261 ==
  Store("L261", "L265", "LTDC_LWHPCR", LTDC_LWHPCR_Value(panel), 261) /\ UNCHANGED i

init_rgb_timings_L265 ==
  Store("L265", "L269", "LTDC_LWVPCR", LTDC_LWVPCR_Value(panel), 265) /\ UNCHANGED i

init_rgb_timings_L269 ==
  Store("L269", "L271", "LTDC_LPFCR", "LTDC_PF_L8", 269) /\ UNCHANGED i

init_rgb_timings_L271 ==
  Store("L271", "L273", "LTDC_LCFBAR", "ION_FRAMEBUFFER_ADDRESS", 271) /\ UNCHANGED i

init_rgb_timings_L273 ==
  /\ Store("L273", "L277", "LTDC_LCFBLR",
           [CFBLL |-> ION_FRAMEBUFFER_WIDTH + 3, CFBP |-> ION_FRAMEBUFFER_WIDTH], 273)
  /\ UNCHANGED i

init_rgb_timings_L277 ==
  Store("L277", "L281", "LTDC_LCFBLNR", ION_FRAMEBUFFER_HEIGHT, 277) /\ UNCHANGED i

init_rgb_timings_L281 ==
  Store("L281", "L287", "LTDC_LCR", {"LEN"}, 281) /\ UNCHANGED i

\* LTDC_SRCR = LTDC_IMR;  ("Ask for immediate reload")
init_rgb_timings_L287 ==
  Store("L287", "L290", "LTDC_SRCR", {"IMR"}, 287) /\ UNCHANGED i

\* LTDC_GCR |= LTDC_LTDCEN;  The statement follows line 287 directly: LTDC_SRCR
\* is not read back in between.
init_rgb_timings_L290 ==
  Store("L290", "L291", "LTDC_GCR", reg.LTDC_GCR \cup {"LTDCEN"}, 290) /\ UNCHANGED i

init_rgb_timings_L291 == Return("L291", "init_rgb_timings", "L108")

init_rgb_interface_L108 == Return("L108", "init_rgb_interface", "L53")

(* The LTDC hardware: a requested reload is pending while IMR reads as set; the
   hardware clears the bit when it has copied the shadow registers. *)
HwReload ==
  /\ "IMR" \in reg.LTDC_SRCR
  /\ reg' = [reg EXCEPT !.LTDC_SRCR = @ \ {"IMR"}]
  /\ UNCHANGED <<pc, log, rest>>

---------------------------------------------------------------------------
(* init_panel and the capability it hands to the panel driver *)

init_display_L53 == Call("L53", "init_panel", "L300")

init_panel_L300 ==
  /\ pc = "L300"
  /\ pc' = "L301"
  /\ display' = [display EXCEPT !.chip_select_pin_write = "gpio_c2_write"]
  /\ UNCHANGED <<reg, log, i, plan, panel, data, wi, shreg, sent, polls, driverResult, wlog>>

init_panel_L301 ==
  /\ pc = "L301"
  /\ pc' = "L302"
  /\ display' = [display EXCEPT !.data_command_pin_write = "gpio_d13_write"]
  /\ UNCHANGED <<reg, log, i, plan, panel, data, wi, shreg, sent, polls, driverResult, wlog>>

init_panel_L302 ==
  /\ pc = "L302"
  /\ pc' = "L303"
  /\ display' = [display EXCEPT !.spi_write = "spi_5_write"]
  /\ UNCHANGED <<reg, log, i, plan, panel, data, wi, shreg, sent, polls, driverResult, wlog>>

\* ili9341_initialize(&(Platform.display)); control passes to the panel driver
init_panel_L303 == Call("L303", "ili9341_initialize", "driver")

(* The external panel driver: while it runs it may call any of the three
   functions it was handed, any number of times, and then return.  What it
   reports is discarded by the call statement of line 303. *)

DriverResults == {"success", "failure"}

Buffers == UNION {[1..n -> Bytes] : n \in 0..MaxLen}

\* gpio_c2_write(pin_state), called through chip_select_pin_write
gpio_c2_write(pin_state) ==
  /\ pc = "driver"
  /\ display.chip_select_pin_write = "gpio_c2_write"
  /\ reg' = [reg EXCEPT !.GPIO_ODR.C2 = pin_state]
  /\ UNCHANGED <<pc, log, rest>>

\* gpio_d13_write(pin_state), called through data_command_pin_write
gpio_d13_write(pin_state) ==
  /\ pc = "driver"
  /\ display.data_command_pin_write = "gpio_d13_write"
  /\ reg' = [reg EXCEPT !.GPIO_ODR.D13 = pin_state]
  /\ UNCHANGED <<pc, log, rest>>

DriverChipSelect == \E b \in BOOLEAN : gpio_c2_write(b)

DriverDataCommand == \E b \in BOOLEAN : gpio_d13_write(b)

\* spi_5_write(data, size), called through spi_write: entry
DriverSpiWrite ==
  /\ pc = "driver"
  /\ display.spi_write = "spi_5_write"
  /\ \E buf \in Buffers : data' = buf
  /\ pc' = "L307"
  /\ wi' = 0
  /\ sent' = <<>>
  /\ wlog' = <<>>
  /\ polls' = 0
  /\ UNCHANGED <<reg, log, i, plan, panel, display, shreg, driverResult>>

DriverReturn ==
  /\ pc = "driver"
  /\ \E r \in DriverResults : driverResult' = r
  /\ pc' = "L304"
  /\ log' = Append(log, Ev("return", "ili9341_initialize", 0, ""))
  /\ UNCHANGED <<reg, i, plan, panel, display, data, wi, shreg, sent, polls, wlog>>

init_panel_L304 == Return("L304", "init_panel", "L54")

init_display_L54 == Return("L54", "init_display", "done")

---------------------------------------------------------------------------
(* spi_5_write *)

WEv(kind, byte, txe) == <<kind, byte, txe>>

\* while (SPI_SR(SPI5) & SPI_BSY) {}
spi_5_write_L307 ==
  /\ pc = "L307"
  /\ pc' = IF "BSY" \in reg.SPI_SR THEN "L307" ELSE "L309"
  /\ polls' = IF "BSY" \in reg.SPI_SR THEN Min(polls + 1, MaxPolls) ELSE 0
  /\ wlog' = IF "BSY" \in reg.SPI_SR THEN wlog
             ELSE Append(wlog, WEv("bsy_clear", NoByte, "TXE" \in reg.SPI_SR))
  /\ UNCHANGED <<reg, log, i, plan, panel, display, data, wi, shreg, sent, driverResult>>

\* for (size_t i=0; i<size; i++): the test
spi_5_write_L309 ==
  /\ pc = "L309"
  /\ pc' = IF wi < Len(data) THEN "L310" ELSE "L314"
  /\ UNCHANGED <<reg, log, rest>>

\* SPI_DR(SPI5) = data[i];  The store fills the data register whatever it held:
\* a byte still waiting there is overwritten.
spi_5_write_L310 ==
  /\ pc = "L310"
  /\ pc' = "L311"
  /\ reg' = [reg EXCEPT !.SPI_DR = data[wi + 1], !.SPI_SR = @ \ {"TXE"}]
  /\ wlog' = Append(wlog, WEv("load", data[wi + 1], "TXE" \in reg.SPI_SR))
  /\ UNCHANGED <<log, i, plan, panel, display, data, wi, shreg, sent, polls, driverResult>>

\* Mutant: the wait for TXE is missing; the loop goes straight to the next byte.
spi_5_write_L311_no_wait ==
  /\ pc = "L311"
  /\ pc' = "L309"
  /\ wi' = wi + 1
  /\ UNCHANGED <<reg, log, i, plan, panel, display, data, shreg, sent, polls, driverResult, wlog>>

\* while (!(SPI_SR(SPI5) & SPI_TXE)) {}  and then the loop's i++
spi_5_write_L311 ==
  /\ pc = "L311"
  /\ pc' = IF "TXE" \in reg.SPI_SR THEN "L309" ELSE "L311"
  /\ wi' = IF "TXE" \in reg.SPI_SR THEN wi + 1 ELSE wi
  /\ polls' = IF "TXE" \in reg.SPI_SR THEN 0 ELSE Min(polls + 1, MaxPolls)
  /\ wlog' = IF "TXE" \in reg.SPI_SR
             THEN Append(wlog, WEv("txe_set", NoByte, TRUE))
             ELSE wlog
  /\ UNCHANGED <<reg, log, i, plan, panel, display, data, shreg, sent, driverResult>>

\* Mutant: the final wait has its test inverted and spins while BSY is clear.
spi_5_write_L314_inverted ==
  /\ pc = "L314"
  /\ pc' = IF "BSY" \in reg.SPI_SR THEN "L316" ELSE "L314"
  /\ polls' = IF "BSY" \in reg.SPI_SR THEN 0 ELSE Min(polls + 1, MaxPolls)
  /\ wlog' = IF "BSY" \in reg.SPI_SR
             THEN Append(wlog, WEv("bsy_clear", NoByte, "TXE" \in reg.SPI_SR))
             ELSE wlog
  /\ UNCHANGED <<reg, log, i, plan, panel, display, data, wi, shreg, sent, driverResult>>

\* while (SPI_SR(SPI5) & SPI_BSY) {}
spi_5_write_L314 ==
  /\ pc = "L314"
  /\ pc' = IF "BSY" \in reg.SPI_SR THEN "L314" ELSE "L316"
  /\ polls' = IF "BSY" \in reg.SPI_SR THEN Min(polls + 1, MaxPolls) ELSE 0
  /\ wlog' = IF "BSY" \in reg.SPI_SR THEN wlog
             ELSE Append(wlog, WEv("bsy_clear", NoByte, "TXE" \in reg.SPI_SR))
  /\ UNCHANGED <<reg, log, i, plan, panel, display, data, wi, shreg, sent, driverResult>>

\* return to the panel driver
spi_5_write_L316 ==
  /\ pc = "L316"
  /\ pc' = "driver"
  /\ UNCHANGED <<reg, log, rest>>

(* The SPI hardware.  TXE clear means the data register holds a byte not yet
   taken; BSY set means the shift register is clocking a byte out. *)

\* An idle shifter takes the waiting byte: TXE and BSY both become set.
HwSpiLoad ==
  /\ "SPE" \in reg.SPI_CR1
  /\ "TXE" \notin reg.SPI_SR
  /\ "BSY" \notin reg.SPI_SR
  /\ shreg' = reg.SPI_DR
  /\ reg' = [reg EXCEPT !.SPI_SR = @ \cup {"TXE", "BSY"}]
  /\ UNCHANGED <<pc, log, i, plan, panel, display, data, wi, sent, polls, driverResult, wlog>>

\* The shifter finishes a byte: it takes the next waiting byte, or goes idle.
HwSpiShift ==
  /\ "BSY" \in reg.SPI_SR
  /\ sent' = Append(sent, shreg)
  /\ shreg' = IF "TXE" \in reg.SPI_SR THEN NoByte ELSE reg.SPI_DR
  /\ reg' = [reg EXCEPT !.SPI_SR =
               IF "TXE" \in reg.SPI_SR THEN @ \ {"BSY"} ELSE @ \cup {"TXE"}]
  /\ UNCHANGED <<pc, log, i, plan, panel, display, data, wi, polls, driverResult, wlog>>

---------------------------------------------------------------------------
(* The specifications *)

TimingGenerator ==
  \/ init_rgb_timings_L200 \/ init_rgb_timings_L208 \/ init_rgb_timings_L216
  \/ init_rgb_timings_L228 \/ init_rgb_timings_L234 \/ init_rgb_timings_L240

LayerManager ==
  \/ init_rgb_timings_L261 \/ init_rgb_timings_L265 \/ init_rgb_timings_L269
  \/ init_rgb_timings_L271 \/ init_rgb_timings_L273 \/ init_rgb_timings_L277
  \/ init_rgb_timings_L281 \/ init_rgb_timings_L287 \/ init_rgb_timings_L290
  \/ init_rgb_timings_L291

Program ==
  \/ init_display_L49 \/ init_spi_interface_L62
  \/ init_spi_gpios_L70 \/ init_spi_gpios_L73 \/ init_spi_gpios_L74
  \/ init_spi_gpios_L77 \/ init_spi_gpios_L78 \/ init_spi_gpios_L83
  \/ init_spi_gpios_L84 \/ init_spi_gpios_L85
  \/ init_spi_interface_L63 \/ init_spi_port_L89 \/ init_spi_port_L92
  \/ init_spi_port_L93 \/ init_spi_interface_L64
  \/ init_display_L51 \/ init_rgb_interface_L103
  \/ init_rgb_gpios_L122 \/ init_rgb_gpios_L129 \/ init_rgb_gpios_L131
  \/ init_rgb_gpios_L132 \/ init_rgb_gpios_L134
  \/ init_rgb_interface_L104
  \/ init_rgb_clocks_L141 \/ init_rgb_clocks_L165 \/ init_rgb_clocks_L166
  \/ init_rgb_clocks_L167 \/ init_rgb_clocks_L170 \/ init_rgb_clocks_L173a
  \/ init_rgb_clocks_L173b \/ init_rgb_clocks_L175
  \/ init_rgb_interface_L105 \/ init_rgb_timings_L184
  \/ TimingGenerator \/ LayerManager
  \/ init_rgb_interface_L108
  \/ init_display_L53
  \/ init_panel_L300 \/ init_panel_L301 \/ init_panel_L302 \/ init_panel_L303
  \/ init_panel_L304 \/ init_display_L54
  \/ spi_5_write_L307 \/ spi_5_write_L309 \/ spi_5_write_L310
  \/ spi_5_write_L311 \/ spi_5_write_L314 \/ spi_5_write_L316

Driver ==
  \/ DriverChipSelect \/ DriverDataCommand \/ DriverSpiWrite \/ DriverReturn

Hardware ==
  \/ HwPllLock \/ HwPllSaiLock \/ HwReload \/ HwSpiLoad \/ HwSpiShift

Next == Program \/ Driver \/ Hardware

Spec == Init /\ [][Next]_vars

\* The processor always executes its next instruction; the hardware and the
\* panel driver are promised nothing.
FairSpec == Spec /\ WF_vars(Program)

(* init_rgb_timings applied to any timing descriptor with positive fields:
   the function's locals are drawn from a bounded set instead of being the
   compiled-in constants. *)
Descriptors ==
  [hsync : 1..MaxT, hbp : 1..MaxT, hadr : 1..MaxT, hfp : 1..MaxT,
   vsync : 1..MaxT, vbp : 1..MaxT, vadr : 1..MaxT, vfp : 1..MaxT]

InitTimings ==
  /\ pc = "L200"
  /\ reg = ResetRegs
  /\ i = 0
  /\ panel \in Descriptors
  /\ plan = ClockPlan
  /\ display = NoDisplay
  /\ data = <<>>
  /\ wi = 0
  /\ shreg = NoByte
  /\ sent = <<>>
  /\ polls = 0
  /\ driverResult = "none"
  /\ log = <<>>
  /\ wlog = <<>>

NextTimings == TimingGenerator \/ LayerManager \/ HwReload

TimingSpec == InitTimings /\ [][NextTimings]_vars

---------------------------------------------------------------------------
(* What the caller of init_display can tell: the function returns nothing, so
   the only outcomes are "still running" and "returned". *)
Outcome == IF pc = "done" THEN "Ready" ELSE "Running"

\* The lines at which the program busy-waits on a status flag.
WaitLines == {"L173a", "L173b", "L307", "L311", "L314"}

IsPrefix(s, t) == Len(s) <= Len(t) /\ SubSeq(t, 1, Len(s)) = s

IsCallOrReturn(e) == e[1] \in {"call", "return"}
IsWrite(e) == e[1] = "write"

Written(r) == \E k \in 1..Len(log) : log[k][1] = "write" /\ log[k][2] = r
Happened(op, what) == \E k \in 1..Len(log) : log[k][1] = op /\ log[k][2] = what

\* fn has been called and has not returned at position k of the log.
Open(fn, k) ==
  \E j \in 1..(k - 1) :
    /\ log[j] = Ev("call", fn, 0, "")
    /\ \A m \in j..k : log[m] # Ev("return", fn, 0, "")

\* The function a register-writing source line belongs to.
FnOfLine(line) ==
  IF line <= 84 THEN "init_spi_gpios"
  ELSE IF line <= 92 THEN "init_spi_port"
  ELSE IF line <= 132 THEN "init_rgb_gpios"
  ELSE IF line <= 170 THEN "init_rgb_clocks"
  ELSE "init_rgb_timings"

---------------------------------------------------------------------------
(* C1 *)

StageOrder ==
  << Ev("call", "init_spi_interface", 0, ""),
     Ev("call", "init_spi_gpios", 0, ""),
     Ev("return", "init_spi_gpios", 0, ""),
     Ev("call", "init_spi_port", 0, ""),
     Ev("return", "init_spi_port", 0, ""),
     Ev("return", "init_spi_interface", 0, ""),
     Ev("call", "init_rgb_interface", 0, ""),
     Ev("call", "init_rgb_gpios", 0, ""),
     Ev("return", "init_rgb_gpios", 0, ""),
     Ev("call", "init_rgb_clocks", 0, ""),
     Ev("return", "init_rgb_clocks", 0, ""),
     Ev("call", "init_rgb_timings", 0, ""),
     Ev("return", "init_rgb_timings", 0, ""),
     Ev("return", "init_rgb_interface", 0, ""),
     Ev("call", "init_panel", 0, ""),
     Ev("call", "ili9341_initialize", 0, ""),
     Ev("return", "ili9341_initialize", 0, ""),
     Ev("return", "init_panel", 0, ""),
     Ev("return", "init_display", 0, "") >>

\* C1: in every run of init_display the stages are entered and left in the order
\* SPI pins, SPI port, RGB pins, RGB clocks, RGB timings, panel; each stage is
\* entered only after the previous one has returned; every register write is
\* made inside the stage its line belongs to; and init_display has returned
\* (Ready) only after the panel driver was called.
C1_StageOrder ==
  /\ IsPrefix(SelectSeq(log, IsCallOrReturn), StageOrder)
  /\ \A k \in 1..Len(log) : IsWrite(log[k]) => Open(FnOfLine(log[k][3]), k)
  /\ Outcome = "Ready" =>
       /\ SelectSeq(log, IsCallOrReturn) = StageOrder
       /\ Happened("call", "ili9341_initialize")

C1_Witness ==
  /\ Outcome = "Ready"
  /\ Happened("return", "init_rgb_interface")
  /\ Happened("call", "ili9341_initialize")

---------------------------------------------------------------------------
(* C2 *)

\* A bring-up step has failed: a busy-wait has used up its iterations without
\* seeing its flag, or the panel driver has reported failure.
StepFailed == polls = MaxPolls \/ driverResult = "failure"

\* C2: whenever a bring-up step fails, bring-up goes to Failed.
C2_FailFast == StepFailed ~> (Outcome = "Failed")

---------------------------------------------------------------------------
(* C3 *)

\* C3: no busy-wait spins forever: the program is again and again at a line
\* that is not a poll of a status flag.
C3_BoundedWait == []<>(pc \notin WaitLines)

---------------------------------------------------------------------------
(* C4 *)

LayerRegs ==
  {"LTDC_LWHPCR", "LTDC_LWVPCR", "LTDC_LPFCR", "LTDC_LCFBAR", "LTDC_LCFBLR",
   "LTDC_LCFBLNR"}

\* C4: whenever the streaming engine is enabled (LTDCEN set in LTDC_GCR), layer
\* 1's window, format, address, stride and line count have been programmed, the
\* layer is enabled, a reload has been requested and the reload is no longer
\* pending.
C4_EnableAfterReload ==
  "LTDCEN" \in reg.LTDC_GCR =>
    /\ \A r \in LayerRegs : Written(r)
    /\ "LEN" \in reg.LTDC_LCR
    /\ Written("LTDC_SRCR")
    /\ "IMR" \notin reg.LTDC_SRCR

---------------------------------------------------------------------------
(* C5 *)

TimingRegs ==
  {"LTDC_SSCR", "LTDC_BPCR", "LTDC_AWCR", "LTDC_TWCR", "LTDC_GCR", "LTDC_BCCR"}

AccumulationRegs == {"LTDC_SSCR", "LTDC_BPCR", "LTDC_AWCR", "LTDC_TWCR"}

WrittenBefore(r, k) ==
  \E j \in 1..(k - 1) : log[j][1] = "write" /\ log[j][2] = r

\* C5: every write of a timing-generator register comes after the clock-lock
\* wait has seen both PLL ready flags, and every write of a layer register
\* comes after all four timing accumulation registers were written.
C5_ClocksBeforeTimings ==
  \A k \in 1..Len(log) :
    /\ (IsWrite(log[k]) /\ log[k][2] \in TimingRegs) =>
         \E j \in 1..(k - 1) : log[j] = Ev("observed", "PLLSAIRDY&PLLRDY", 173, "")
    /\ (IsWrite(log[k]) /\ log[k][2] \in LayerRegs \cup {"LTDC_LCR", "LTDC_SRCR"}) =>
         \A r \in AccumulationRegs : WrittenBefore(r, k)

C5_Witness ==
  /\ Written("LTDC_BCCR")
  /\ Written("LTDC_LCFBLNR")
  /\ {"PLLSAIRDY", "PLLRDY"} \subseteq reg.RCC_CR

---------------------------------------------------------------------------
(* C6 *)

TimingGeneratorOrder ==
  <<"LTDC_SSCR", "LTDC_BPCR", "LTDC_AWCR", "LTDC_TWCR", "LTDC_GCR", "LTDC_BCCR">>

\* The writes made by lines 200-240, the Timing Generator part.
IsTimingGeneratorWrite(e) == e[1] = "write" /\ e[3] >= 200 /\ e[3] <= 240

TimingGeneratorWrites ==
  LET w == SelectSeq(log, IsTimingGeneratorWrite)
  IN  [k \in 1..Len(w) |-> w[k][2]]

\* C6: the Timing Generator writes LTDC_SSCR, LTDC_BPCR, LTDC_AWCR, LTDC_TWCR,
\* LTDC_GCR, LTDC_BCCR in this order, each exactly once.
C6_TimingOrder ==
  /\ IsPrefix(TimingGeneratorWrites, TimingGeneratorOrder)
  /\ (pc = "L261" \/ Happened("return", "init_rgb_timings")) =>
       TimingGeneratorWrites = TimingGeneratorOrder

C6_Witness == pc = "L261" /\ Len(TimingGeneratorWrites) = 6

---------------------------------------------------------------------------
(* C7 *)

Loads ==
  LET IsLoad(e) == e[1] = "load"
      w == SelectSeq(wlog, IsLoad)
  IN  [k \in 1..Len(w) |-> w[k][2]]

\* The parts of the write protocol that do not concern TXE before a load.
WriteFrame ==
  /\ wlog # <<>> => wlog[1][1] = "bsy_clear"
  /\ IsPrefix(Loads, data)
  /\ pc = "L316" =>
       /\ Loads = data
       /\ sent = data
       /\ wlog[Len(wlog)][1] = "bsy_clear"
       /\ data # <<>> => wlog[Len(wlog) - 1][1] = "txe_set"

\* C7 as claimed: write first waits for BSY clear; every byte, the first
\* included, is loaded only after TXE has been observed set; bytes are loaded in
\* buffer order, none skipped or overwritten; write returns only after BSY clear
\* was observed following the last byte.
C7_TxeBeforeEveryLoad ==
  /\ WriteFrame
  /\ \A k \in 1..Len(wlog) :
       wlog[k][1] = "load" => k > 1 /\ wlog[k - 1][1] = "txe_set"

\* C7 as amended: the first byte is loaded right after the BSY wait, without a
\* poll of TXE; every later byte is loaded only after TXE was observed set
\* following the previous load; TXE is in fact set at every load, so no byte is
\* overwritten; the rest as claimed.
C7_BlockingWrite ==
  /\ WriteFrame
  /\ \A k \in 1..Len(wlog) :
       wlog[k][1] = "load" =>
         /\ k > 1
         /\ wlog[k - 1][1] = (IF k = 2 THEN "bsy_clear" ELSE "txe_set")
         /\ wlog[k][3]

C7_Witness == pc = "L316" /\ Len(data) >= 2 /\ sent = data /\ data[1] # data[2]

---------------------------------------------------------------------------
(* C8 *)

ClocksProgrammed == Written("RCC_DCKCFGR")

\* C8 as claimed: input x multiplier / (post_divider x output_divider) is the
\* target pixel clock; input 16, multiplier 192, post-divider 4, output divider 8
\* give 6.
C8_ClockFormula ==
  ClocksProgrammed =>
    (HSI_MHZ * reg.RCC_PLLSAICFGR.PLLSAIN)
       \div (reg.RCC_PLLSAICFGR.PLLSAIR * reg.RCC_DCKCFGR.PLLSAIDIVR)
      = TargetPixelClock

\* C8 as amended: the programmed plan (multiplier 192, post-divider 4, output
\* divider 8, each within its bound) gives the 6 MHz target exactly once the PLL
\* input divider PLLM = 16 is counted: 16 x (192 / 16) / 4 / 8 = 6, no division
\* leaving a remainder.
C8_PixelClock ==
  ClocksProgrammed =>
    /\ reg.RCC_PLLSAICFGR.PLLSAIN = 192
    /\ reg.RCC_PLLSAICFGR.PLLSAIR = 4
    /\ reg.RCC_DCKCFGR.PLLSAIDIVR = 8
    /\ reg.RCC_PLLSAICFGR.PLLSAIN \in 49..432
    /\ reg.RCC_PLLSAICFGR.PLLSAIR \in 2..7
    /\ reg.RCC_DCKCFGR.PLLSAIDIVR \in {2, 4, 8, 16}
    /\ PXL(reg) = 6
    /\ PXL(reg) = TargetPixelClock
    /\ reg.RCC_PLLSAICFGR.PLLSAIN % PLLM_DEFAULT = 0
    /\ VCO(reg) % reg.RCC_PLLSAICFGR.PLLSAIR = 0
    /\ PLL_LCD(reg) % reg.RCC_DCKCFGR.PLLSAIDIVR = 0

C8_Witness == ClocksProgrammed /\ pc = "L170"

---------------------------------------------------------------------------
(* C9 *)

\* C9: for every timing descriptor with positive fields, once the four
\* accumulation registers are written, their values are strictly increasing on
\* each axis, the first is sync-1, and each later one is the previous one plus
\* the length of the region it adds.
C9_Accumulation ==
  Written("LTDC_TWCR") =>
    /\ reg.LTDC_SSCR.HSW = panel.hsync - 1
    /\ reg.LTDC_BPCR.AHBP = reg.LTDC_SSCR.HSW + panel.hbp
    /\ reg.LTDC_AWCR.AAW = reg.LTDC_BPCR.AHBP + panel.hadr
    /\ reg.LTDC_TWCR.TOTALW = reg.LTDC_AWCR.AAW + panel.hfp
    /\ reg.LTDC_SSCR.HSW < reg.LTDC_BPCR.AHBP
    /\ reg.LTDC_BPCR.AHBP < reg.LTDC_AWCR.AAW
    /\ reg.LTDC_AWCR.AAW < reg.LTDC_TWCR.TOTALW
    /\ reg.LTDC_SSCR.VSH = panel.vsync - 1
    /\ reg.LTDC_BPCR.AVBP = reg.LTDC_SSCR.VSH + panel.vbp
    /\ reg.LTDC_AWCR.AAH = reg.LTDC_BPCR.AVBP + panel.vadr
    /\ reg.LTDC_TWCR.TOTALH = reg.LTDC_AWCR.AAH + panel.vfp
    /\ reg.LTDC_SSCR.VSH < reg.LTDC_BPCR.AVBP
    /\ reg.LTDC_BPCR.AVBP < reg.LTDC_AWCR.AAH
    /\ reg.LTDC_AWCR.AAH < reg.LTDC_TWCR.TOTALH

C9_Witness ==
  /\ Written("LTDC_TWCR")
  /\ panel.hsync = 1 /\ panel.hbp = MaxT /\ panel.hadr = 1 /\ panel.hfp = MaxT
  /\ panel.vsync = MaxT /\ panel.vbp = 1 /\ panel.vadr = MaxT /\ panel.vfp = 1

---------------------------------------------------------------------------
(* C10 *)

\* C10: with the compiled-in timing {hsync 10, hbp 20, hactive 240, hfp 10,
\* vsync 2, vbp 2, vactive 320, vfp 4} the total width is 280 and the total
\* height 328 (the registers hold them minus one), and the layer window is
\* (30, 269) horizontally and (4, 323) vertically.
C10_EndToEnd ==
  Written("LTDC_LWVPCR") =>
    /\ panel = [hsync |-> 10, hbp |-> 20, hadr |-> 240, hfp |-> 10,
                vsync |-> 2, vbp |-> 2, vadr |-> 320, vfp |-> 4]
    /\ reg.LTDC_TWCR.TOTALW + 1 = 280
    /\ reg.LTDC_TWCR.TOTALH + 1 = 328
    /\ reg.LTDC_LWHPCR = [WHSTPOS |-> 30, WHSPPOS |-> 269]
    /\ reg.LTDC_LWVPCR = [WVSTPOS |-> 4, WVSPPOS |-> 323]

C10_Witness == Written("LTDC_LWVPCR") /\ pc = "L269"

---------------------------------------------------------------------------
(* init_rgb_clocks applied to any clock plan: the three stage values are drawn
   from a set that reaches past each documented bound on both sides. *)

\* "49 <= PLLSAIN <= 432", "2 <= PLLSAIR <= 7", "2 <= PLLSAIDIVR <= 16, (set as
\* a power of two, use macro)"
PlanInBounds(p) ==
  /\ p.PLLSAIN \in 49..432
  /\ p.PLLSAIR \in 2..7
  /\ p.PLLSAIDIVR \in {2, 4, 8, 16}

Plans ==
  [PLLSAIN : {48, 49, 192, 432, 433},
   PLLSAIR : {1, 2, 4, 7, 8},
   PLLSAIDIVR : {1, 2, 3, 4, 8, 16, 32}]

InitClocks ==
  /\ pc = "L141"
  /\ reg = ResetRegs
  /\ i = 0
  /\ panel = NoPanel
  /\ plan \in Plans
  /\ display = NoDisplay
  /\ data = <<>>
  /\ wi = 0
  /\ shreg = NoByte
  /\ sent = <<>>
  /\ polls = 0
  /\ driverResult = "none"
  /\ log = <<>>
  /\ wlog = <<>>

NextClocks ==
  \/ init_rgb_clocks_L141 \/ init_rgb_clocks_L165 \/ init_rgb_clocks_L166
  \/ init_rgb_clocks_L167 \/ init_rgb_clocks_L170 \/ init_rgb_clocks_L173a
  \/ init_rgb_clocks_L173b \/ init_rgb_clocks_L175
  \/ HwPllLock \/ HwPllSaiLock

ClockSpec == InitClocks /\ [][NextClocks]_vars

---------------------------------------------------------------------------
(* C11 *)

---------------------------------------------------------------------------
(* The pin configuration functions applied twice in a row, from any of a set
   of starting register states: init_spi_gpios or init_rgb_gpios is entered,
   returns, and is called once more by its caller. *)

\* Starting states: the clock-enable register holds none, one or all of the GPIO
\* bits, and every pin of every group has the same mode and the same alternate
\* function, whatever they are.
StartRegs ==
  {[ResetRegs EXCEPT !.RCC_AHB1ENR = ahb,
                     !.GPIO_MODER = [g \in Groups |-> [p \in Pins |-> mode]],
                     !.GPIO_AFR = [g \in Groups |-> [p \in Pins |-> af]]] :
     ahb \in {{}, {EN("GPIOC")}, {EN(g) : g \in Groups}},
     mode \in {"INPUT", "OUTPUT", "ALTERNATE_FUNCTION", "ANALOG"},
     af \in {0, SPI_AF, LTDC_AF, 15}}

\* How many times the pin configuration functions have returned.
Applications ==
  Cardinality({k \in 1..Len(log) :
                 log[k] \in {Ev("return", "init_spi_gpios", 0, ""),
                             Ev("return", "init_rgb_gpios", 0, "")}})

InitPinMux ==
  /\ pc \in {"L70", "L122"}
  /\ reg \in StartRegs
  /\ i = 0
  /\ panel = NoPanel
  /\ plan = ClockPlan
  /\ display = NoDisplay
  /\ data = <<>>
  /\ wi = 0
  /\ shreg = NoByte
  /\ sent = <<>>
  /\ polls = 0
  /\ driverResult = "none"
  /\ log = <<>>
  /\ wlog = <<>>

\* The caller calls init_spi_gpios again as soon as it has returned.
init_spi_gpios_again ==
  /\ Applications = 1
  /\ Call("L63", "init_spi_gpios", "L70")

\* The caller calls init_rgb_gpios again as soon as it has returned.
init_rgb_gpios_again ==
  /\ Applications = 1
  /\ Call("L104", "init_rgb_gpios", "L122")

NextPinMux ==
  \/ init_spi_gpios_L70 \/ init_spi_gpios_L73 \/ init_spi_gpios_L74
  \/ init_spi_gpios_L77 \/ init_spi_gpios_L78 \/ init_spi_gpios_L83
  \/ init_spi_gpios_L84 \/ init_spi_gpios_L85
  \/ init_rgb_gpios_L122 \/ init_rgb_gpios_L129 \/ init_rgb_gpios_L131
  \/ init_rgb_gpios_L132 \/ init_rgb_gpios_L134
  \/ init_spi_gpios_again \/ init_rgb_gpios_again

PinMuxSpec == InitPinMux /\ [][NextPinMux]_vars

---------------------------------------------------------------------------
(* C12 *)

\* C12: once init_spi_gpios (or init_rgb_gpios) has been applied, applying it
\* again changes nothing: no step of the second application alters the
\* clock-enable, mode or alternate-function registers, so the state after two
\* applications is the state after one.
C12_PinMuxIdempotent ==
  [][Applications >= 1 =>
       /\ reg'.RCC_AHB1ENR = reg.RCC_AHB1ENR
       /\ reg'.GPIO_MODER = reg.GPIO_MODER
       /\ reg'.GPIO_AFR = reg.GPIO_AFR]_vars

C12_Witness ==
  /\ Applications = 2
  /\ pc = "L104"
  /\ reg.GPIO_MODER["GPIOE"][0] = "ANALOG"
  /\ reg.GPIO_MODER["GPIOG"][12] = "ALTERNATE_FUNCTION"

---------------------------------------------------------------------------
(* Bring-up started again: init_display entered with registers that an earlier
   attempt, or an earlier configuration, may have left behind. *)

\* Register states before bring-up: the reset state, and states in which a bit
\* that bring-up itself never sets is already set in one or more of the
\* registers that bring-up ORs into.
PriorRegs ==
  {[ResetRegs EXCEPT !.RCC_AHB1ENR = ahb, !.RCC_APB2ENR = apb,
                     !.RCC_CR = cr, !.LTDC_GCR = gcr] :
     ahb \in {{}, {EN("GPIOE")}},
     apb \in {{}, {"SPI1EN"}},
     cr \in {{}, {"HSEON"}},
     gcr \in {{}, {"HSPOL"}}}

InitAgain ==
  /\ pc = "L49"
  /\ reg \in PriorRegs
  /\ i = 0
  /\ panel = NoPanel
  /\ plan = ClockPlan
  /\ display = NoDisplay
  /\ data = <<>>
  /\ wi = 0
  /\ shreg = NoByte
  /\ sent = <<>>
  /\ polls = 0
  /\ driverResult = "none"
  /\ log = <<>>
  /\ wlog = <<>>

ReinitSpec == InitAgain /\ [][Next]_vars

---------------------------------------------------------------------------
(* C13 *)

\* The bit registers as bring-up leaves them when it starts from reset.
EnablesFromReset ==
  [RCC_AHB1ENR |-> {EN("GPIOA"), EN("GPIOB"), EN("GPIOC"), EN("GPIOD"),
                    EN("GPIOF"), EN("GPIOG")},
   RCC_APB2ENR |-> {"SPI5EN", "LTDCEN"},
   RCC_CR      |-> {"PLLSAION", "PLLON", "PLLSAIRDY", "PLLRDY"},
   LTDC_GCR    |-> {"PCPOL", "LTDCEN"}]

\* C13 as claimed: whatever the registers held before bring-up, after bring-up
\* each register the sequence programs holds one and the same value (the one
\* it reaches from reset, reset being one of the starting states): nothing of
\* the earlier state survives in RCC_AHB1ENR, RCC_APB2ENR, RCC_CR or LTDC_GCR.
C13_NoResidualState ==
  Outcome = "Ready" =>
    /\ reg.RCC_AHB1ENR = EnablesFromReset.RCC_AHB1ENR
    /\ reg.RCC_APB2ENR = EnablesFromReset.RCC_APB2ENR
    /\ reg.RCC_CR = EnablesFromReset.RCC_CR
    /\ reg.LTDC_GCR = EnablesFromReset.LTDC_GCR

---------------------------------------------------------------------------
(* C14 *)

\* The step appends a write of a pin's mode or alternate function to the log.
IsPinWrite(e) == IsWrite(e) /\ e[2] \in {"GPIO_MODER", "GPIO_AFR"}

\* C14: no mode or alternate-function field of a GPIO group is written while
\* the clock-enable bit of that group is clear: at every step that writes a
\* pin's field, the group's enable is already set in RCC_AHB1ENR.
C14_ClockBeforePins ==
  [][(Len(log') = Len(log) + 1 /\ IsPinWrite(log'[Len(log')])) =>
       EN(log'[Len(log')][4]) \in reg.RCC_AHB1ENR]_vars

C14_Witness ==
  /\ pc = "L134"
  /\ \A k \in 1..rgb_pin_count :
       /\ EN(rgb_pins[k][1]) \in reg.RCC_AHB1ENR
       /\ reg.GPIO_MODER[rgb_pins[k][1]][rgb_pins[k][2]] = "ALTERNATE_FUNCTION"
  /\ reg.GPIO_MODER["GPIOD"][13] = "OUTPUT"

---------------------------------------------------------------------------
(* C15 *)

\* C15 as claimed: bring-up ends in Ready only if the panel driver reported
\* success.
C15_PropagatesDriverResult ==
  Outcome = "Ready" => driverResult = "success"

---------------------------------------------------------------------------
(* init_rgb_timings applied to descriptors whose active area reaches and
   exceeds what the comment of line 214 calls supported. *)

\* "(only up to 1024x768 is supported)"
MaxActiveWidth == 1024
MaxActiveHeight == 768

ActiveAreaSupported(p) ==
  p.hadr <= MaxActiveWidth /\ p.vadr <= MaxActiveHeight

LargeDescriptors ==
  [hsync : 1..MaxT, hbp : 1..MaxT,
   hadr : {1, MaxActiveWidth, MaxActiveWidth + 1}, hfp : {1},
   vsync : 1..MaxT, vbp : 1..MaxT,
   vadr : {1, MaxActiveHeight, MaxActiveHeight + 1}, vfp : {1}]

InitResolution ==
  /\ pc = "L200"
  /\ reg = ResetRegs
  /\ i = 0
  /\ panel \in LargeDescriptors
  /\ plan = ClockPlan
  /\ display = NoDisplay
  /\ data = <<>>
  /\ wi = 0
  /\ shreg = NoByte
  /\ sent = <<>>
  /\ polls = 0
  /\ driverResult = "none"
  /\ log = <<>>
  /\ wlog = <<>>

ResolutionSpec == InitResolution /\ [][NextTimings]_vars

---------------------------------------------------------------------------
(* C16 *)

---------------------------------------------------------------------------
(* C17 *)

\* C17: the clock-lock wait of line 173 is left only with both PLLRDY and
\* PLLSAIRDY set in RCC_CR (at the return of init_rgb_clocks and ever after),
\* and while the program is in the wait both PLLs have been switched on and
\* the three stage values have been stored.
C17_LockWait ==
  /\ (pc = "L175" \/ Happened("return", "init_rgb_clocks")) =>
       /\ "PLLRDY" \in reg.RCC_CR
       /\ "PLLSAIRDY" \in reg.RCC_CR
  /\ pc \in {"L173a", "L173b"} =>
       /\ "PLLON" \in reg.RCC_CR
       /\ "PLLSAION" \in reg.RCC_CR
       /\ Written("RCC_PLLSAICFGR")
       /\ Written("RCC_DCKCFGR")
       /\ reg.RCC_PLLSAICFGR = [PLLSAIN |-> plan.PLLSAIN, PLLSAIR |-> plan.PLLSAIR]
       /\ reg.RCC_DCKCFGR = [PLLSAIDIVR |-> plan.PLLSAIDIVR]

\* The wait has just been left: its last read found both flags set.
C17_Witness ==
  /\ pc = "L175"
  /\ {"PLLRDY", "PLLSAIRDY"} \subseteq reg.RCC_CR
  /\ log[Len(log)] = Ev("observed", "PLLSAIRDY&PLLRDY", 173, "")

---------------------------------------------------------------------------
(* C18 *)

\* C18 as claimed: while the external panel driver runs, PC2 (chip select) and
\* PD13 (command/data select) are both configured as outputs.
C18_ControlPinsAreOutputs ==
  pc = "driver" =>
    /\ reg.GPIO_MODER["GPIOC"][2] = "OUTPUT"
    /\ reg.GPIO_MODER["GPIOD"][13] = "OUTPUT"

---------------------------------------------------------------------------
(* C19 *)

\* C19: for every descriptor with positive fields, once the layer window is
\* programmed its first column is the back-porch accumulation value plus one
\* (hsync + hbp) and its last column is the active-area accumulation value
\* (hsync + hbp + hadr - 1), so first <= last and the window is exactly hadr
\* columns wide; likewise its lines, with vsync, vbp and vadr.
C19_WindowInActiveArea ==
  Written("LTDC_LWVPCR") =>
    /\ reg.LTDC_LWHPCR.WHSTPOS = reg.LTDC_BPCR.AHBP + 1
    /\ reg.LTDC_LWHPCR.WHSTPOS = panel.hsync + panel.hbp
    /\ reg.LTDC_LWHPCR.WHSPPOS = reg.LTDC_AWCR.AAW
    /\ reg.LTDC_LWHPCR.WHSPPOS = panel.hsync + panel.hbp + panel.hadr - 1
    /\ reg.LTDC_LWHPCR.WHSTPOS <= reg.LTDC_LWHPCR.WHSPPOS
    /\ reg.LTDC_LWHPCR.WHSPPOS - reg.LTDC_LWHPCR.WHSTPOS + 1 = panel.hadr
    /\ reg.LTDC_LWVPCR.WVSTPOS = reg.LTDC_BPCR.AVBP + 1
    /\ reg.LTDC_LWVPCR.WVSTPOS = panel.vsync + panel.vbp
    /\ reg.LTDC_LWVPCR.WVSPPOS = reg.LTDC_AWCR.AAH
    /\ reg.LTDC_LWVPCR.WVSPPOS = panel.vsync + panel.vbp + panel.vadr - 1
    /\ reg.LTDC_LWVPCR.WVSTPOS <= reg.LTDC_LWVPCR.WVSPPOS
    /\ reg.LTDC_LWVPCR.WVSPPOS - reg.LTDC_LWVPCR.WVSTPOS + 1 = panel.vadr

\* A window one column wide (first = last) and MaxT lines high.
C19_Witness ==
  /\ Written("LTDC_LWVPCR")
  /\ panel.hadr = 1 /\ panel.vadr = MaxT
  /\ panel.hsync = MaxT /\ panel.hbp = MaxT
  /\ reg.LTDC_LWHPCR.WHSTPOS = reg.LTDC_LWHPCR.WHSPPOS

---------------------------------------------------------------------------
(* C20 *)

\* The processor always executes its next instruction; each PLL locks some
\* time after it is switched on; the SPI shifter takes a waiting byte and
\* finishes the byte it is shifting; and the panel driver, which may call the
\* three functions it was handed any number of times, returns in the end.
LiveSpec ==
  /\ Spec
  /\ WF_vars(Program)
  /\ WF_vars(HwPllLock)
  /\ WF_vars(HwPllSaiLock)
  /\ WF_vars(HwSpiLoad)
  /\ WF_vars(HwSpiShift)
  /\ SF_vars(DriverReturn)

\* C20: when the hardware eventually sets every polled flag, init_display
\* eventually returns (Ready), and every call of spi_5_write, whatever the
\* length of its buffer, eventually reaches its return.
C20_Termination ==
  /\ <>(Outcome = "Ready")
  /\ (pc = "L307") ~> (pc = "L316")

\* init_display has returned after a write of a full-length buffer whose bytes
\* have all left the shifter.
C20_Witness ==
  /\ Outcome = "Ready"
  /\ Len(data) = MaxLen
  /\ sent = data
  /\ "BSY" \notin reg.SPI_SR

====
